---------------------------- MODULE Spec2Model ----------------------------
(***************************************************************************)
(* A model of the LG workflow application (src/app.py): one shared sheet   *)
(* of task rows, read whole by load_data and overwritten whole by          *)
(* save_data, and browser sessions that each run the script once per       *)
(* interaction: load the sheet, render the view of the logged-in user,     *)
(* execute the handler of the pressed button on the loaded frame, save.    *)
(***************************************************************************)
EXTENDS Integers, Sequences, FiniteSets, TLC

(***************************************************************************)
(* Bounds of the model.                                                    *)
(***************************************************************************)
MaxRows == 2        \* Assign Task is not offered on a frame of this many rows
MaxDay == 2         \* the Cairo calendar runs over the days 1..MaxDay
MaxTotal == 3       \* a new row's current_total stays within -MaxTotal..MaxTotal

Sessions == {"s1", "s2"}
Days == 1..MaxDay

(***************************************************************************)
(* The Users sheet: get_users_by_role filters it by role.                  *)
(***************************************************************************)
UsersSheet ==
    { [username |-> "auth1", role |-> "Authorizer"],
      [username |-> "auth2", role |-> "Authorizer"],
      [username |-> "inp1", role |-> "Inputter"],
      [username |-> "inp2", role |-> "Inputter"] }

get_users_by_role(role_name) ==
    { u.username : u \in { v \in UsersSheet : v.role = role_name } }

Authorizers == get_users_by_role("Authorizer")
Inputters == get_users_by_role("Inputter")

NoUser == "-"
NoId == << 0, 0 >>

\* Python's None, as a cell of the frame
None == "<None>"

\* st.selectbox(label, options): one of the options, None without options
SelectBox(options) == IF options = { } THEN { None } ELSE options

\* Create tab, Assign To: the Inputters, or the placeholder without any
AssignTo(inputters_list) ==
    SelectBox(IF inputters_list = { } THEN { "No Inputters Found" }
              ELSE inputters_list)

(***************************************************************************)
(* Values of the columns.  A task_id "{date}-{seq:03d}" is the pair        *)
(* <<date, seq>>: the date part has a fixed width ("%d-%b-%Y"), so that    *)
(* str.startswith(today_str) compares the date parts.                      *)
(***************************************************************************)
StatusOpts == << "Active", "Ready for Auth", "Pending", "Completed" >>
Decisions == { "Approve", "Pending", "Return" }
Dests == { "Inputter", "Authorizer" }

\* "Increase" in req, "Decrease" in req: substring tests on the request type
HasIncrease(req) == req \in { "Increase", "Increase/Decrease" }
HasDecrease(req) == req \in { "Decrease", "Increase/Decrease" }

\* str.strip() on the text values the model uses
Strip(x) ==
    CASE x = " LG1" -> "LG1"
      [] x = " " -> ""
      [] OTHER -> x

\* pd.to_numeric(errors='coerce').fillna(0) on a cell
ToNumeric(x) == IF x \in Int THEN x ELSE 0

SeqToSet(q) == { q[i] : i \in 1..Len(q) }

(***************************************************************************)
(* load_data: the whole sheet, numeric columns coerced, text columns       *)
(* stripped.  save_data: the sheet is cleared and the frame's rows are     *)
(* written in its place.                                                   *)
(***************************************************************************)
\* LoadRow that coerces the numeric columns and strips nothing
LoadRow_Raw(r) ==
    [r EXCEPT !.amount = ToNumeric(@), !.current_total = ToNumeric(@),
              !.file_sent = ToNumeric(@), !.original_recvd = ToNumeric(@)]

LoadRow(r) ==
    [r EXCEPT !.amount = ToNumeric(@), !.current_total = ToNumeric(@),
              !.file_sent = ToNumeric(@), !.original_recvd = ToNumeric(@),
              !.status = Strip(@), !.lg_number = Strip(@), !.req_type = Strip(@)]

load_data(sheet) == [i \in 1..Len(sheet) |-> LoadRow(sheet[i])]

\* df.fillna(""): None is written as the empty cell
FillNa(row) ==
    [row EXCEPT !.inputter = IF @ = None THEN "" ELSE @,
                !.authorizer = IF @ = None THEN "" ELSE @]

save_data(frame) == [i \in 1..Len(frame) |-> FillNa(frame[i])]

(***************************************************************************)
(* Helpers of the views.                                                   *)
(***************************************************************************)
\* get_current_date() when the calendar shows day d
get_current_date(d) == d

\* generate_task_id: today's date and 1 + the number of task_ids of the
\* frame that start with it
StartsWith(task_id, today) == task_id[1] = today

generate_task_id(frame, today) ==
    LET count_today == Cardinality({ i \in 1..Len(frame) :
                                       StartsWith(frame[i].task_id, today) })
    IN  << today, count_today + 1 >>

\* df[df['task_id'] == sel_id].index[0]: the first row that carries sel_id
IndexOf(frame, sel_id) ==
    CHOOSE i \in 1..Len(frame) :
        /\ frame[i].task_id = sel_id
        /\ \A j \in 1..(i - 1) : frame[j].task_id # sel_id

\* smart_select_task: the task_id of the row whose label the user picks.
\* The label joins lg_number, assigned_date and the free-text columns
\* branch, beneficiary and cif, so every row of the subset can be picked.
smart_select_task(subset) == { r.task_id : r \in SeqToSet(subset) }

\* df.at[idx, ...] = ...: the frame with row idx replaced
SetRow(frame, idx, row) == [frame EXCEPT ![idx] = row]

(***************************************************************************)
(* Create tab: history search, financials, the new row.                    *)
(***************************************************************************)
\* hist = df[df['lg_number'] == lg_search]
HistOf(frame, lg_search) ==
    IF lg_search = "" THEN << >>
    ELSE LET Match(r) == r.lg_number = lg_search IN SelectSeq(frame, Match)

\* PrevTot without the fall back to amount
PrevTot_NoFallback(frame, lg_search) ==
    LET hist == HistOf(frame, lg_search)
    IN  IF hist = << >> THEN 0
        ELSE ToNumeric(hist[Len(hist)].current_total)

\* prev_tot: the last history row's current_total, or its amount when that
\* is zero, or 0.0 without history
PrevTot(frame, lg_search) ==
    LET hist == HistOf(frame, lg_search)
    IN  IF hist = << >> THEN 0
        ELSE LET last_row == hist[Len(hist)]
                 by_total == ToNumeric(last_row.current_total)
             IN  IF by_total = 0 THEN ToNumeric(last_row.amount) ELSE by_total

\* final_amt and final_tot from the request type and the number typed
FinalAmt(req, prev_tot, typed) ==
    IF HasIncrease(req) \/ HasDecrease(req) THEN prev_tot ELSE typed

\* FinalTot that takes the number typed as a delta for every request type
FinalTot_Delta(req, prev_tot, typed) ==
    IF HasDecrease(req) /\ ~HasIncrease(req) THEN prev_tot - typed
    ELSE prev_tot + typed

FinalTot(req, prev_tot, typed) ==
    IF HasIncrease(req) \/ HasDecrease(req)
    THEN (IF HasIncrease(req) THEN prev_tot + typed ELSE prev_tot - typed)
    ELSE typed

NewRow(new_id, today_str, new_lg, req, final_amt, final_tot, inp, user, ptype) ==
    [ task_id |-> new_id, assigned_date |-> today_str, lg_number |-> new_lg,
      inputter |-> inp, authorizer |-> user, req_type |-> req,
      amount |-> final_amt, current_total |-> final_tot, post_type |-> ptype,
      status |-> "Active", file_sent |-> 0, original_recvd |-> 0,
      pending_reason |-> "" ]

(***************************************************************************)
(* What each handler writes into the row it acts on.                       *)
(***************************************************************************)
Flag(checked) == IF checked THEN 1 ELSE 0

\* Active tab, Save Changes
EditActiveRow(row, n_inp, n_fs) ==
    [row EXCEPT !.inputter = n_inp, !.file_sent = Flag(n_fs)]

\* ApproveRow that completes only a row whose file_sent is set
ApproveRow_Guarded(row) ==
    IF ToNumeric(row.file_sent) = 1 THEN [row EXCEPT !.status = "Completed"]
    ELSE row

\* ApproveRow that forces file_sent to 1
ApproveRow_Forced(row) == [row EXCEPT !.status = "Completed", !.file_sent = 1]

\* Review tab, Execute with decision Approve
ApproveRow(row) == [row EXCEPT !.status = "Completed"]

\* DeferRow that saves a returned task under a status of its own
DeferRow_Returned(row, dec, reas) ==
    [row EXCEPT !.status = IF dec = "Pending" THEN "Pending" ELSE "Returned",
                !.pending_reason = reas]

\* Review tab, Execute with decision Pending or Return
DeferRow(row, dec, reas) ==
    [row EXCEPT !.status = IF dec = "Pending" THEN "Pending" ELSE "Active",
                !.pending_reason = reas]

ReviewRow(row, dec, reas) ==
    IF dec = "Approve" THEN ApproveRow(row) ELSE DeferRow(row, dec, reas)

\* ReleaseRow that hands the task to the party that was not picked
ReleaseRow_Swapped(row, n_fs, n_or, n_reas, dest) ==
    [row EXCEPT !.file_sent = Flag(n_fs), !.original_recvd = Flag(n_or),
                !.pending_reason = n_reas,
                !.status = IF dest = "Inputter" THEN "Ready for Auth" ELSE "Active"]

\* Pendings tab, Release
ReleaseRow(row, n_fs, n_or, n_reas, dest) ==
    [row EXCEPT !.file_sent = Flag(n_fs), !.original_recvd = Flag(n_or),
                !.pending_reason = n_reas,
                !.status = IF dest = "Inputter" THEN "Active" ELSE "Ready for Auth"]

\* MasterRow that also renumbers the task
MasterRow_Rekey(row, m_stat, m_auth, m_inp, m_amt, m_curr, m_fs, m_or) ==
    [row EXCEPT !.status = m_stat, !.authorizer = m_auth, !.inputter = m_inp,
                !.file_sent = Flag(m_fs), !.original_recvd = Flag(m_or),
                !.amount = m_amt, !.current_total = m_curr,
                !.task_id = << @[1], @[2] + 1 >>]

\* Master Manager, Update Task without the delete box
MasterRow(row, m_stat, m_auth, m_inp, m_amt, m_curr, m_fs, m_or) ==
    [row EXCEPT !.status = m_stat, !.authorizer = m_auth, !.inputter = m_inp,
                !.file_sent = Flag(m_fs), !.original_recvd = Flag(m_or),
                !.amount = m_amt, !.current_total = m_curr]

\* Doc Tracking, Confirm File Sent
FileSentRow(row) == [row EXCEPT !.file_sent = 1]

\* Doc Tracking, Confirm Original Received
OriginalRow(row) == [row EXCEPT !.original_recvd = 1, !.post_type = "Original"]

\* Inputter Tasks tab, Send
SendRow(row, n_auth) ==
    [row EXCEPT !.status = "Ready for Auth", !.authorizer = n_auth]

\* Inputter Tasks tab, Mark Pending
MarkPendingRow(row, reas) ==
    [row EXCEPT !.status = "Pending", !.pending_reason = reas]

\* Inputter Watchlist tab, Resubmit
ResubmitRow(row) == [row EXCEPT !.status = "Ready for Auth"]

\* df[df['task_id'] != sel_id]
DeleteRows(frame, sel_id) ==
    LET Keep(r) == r.task_id # sel_id IN SelectSeq(frame, Keep)

(***************************************************************************)
(* What the users type and pick, as a record of sets: users (who logs in), *)
(* lgs, reqs, amts, ptypes (Create tab), inps, auths, stats (the select    *)
(* boxes of users and of the Master Manager's status), reasons, and fs,    *)
(* orig (the values a File Sent / Orig Recvd checkbox may be set to).      *)
(* inps and auths are what get_users_by_role returns to the run.           *)
(***************************************************************************)
AllUsers == Authorizers \cup Inputters

\* the workflow of one guarantee between all Inputters and Authorizers
Workflow ==
    [ users |-> AllUsers, lgs |-> { "", "LG1" },
      reqs |-> { "New" }, amts |-> { 1 }, ptypes |-> { "Copy" },
      inps |-> Inputters, auths |-> Authorizers,
      stats |-> SeqToSet(StatusOpts), reasons |-> { "why" },
      fs |-> BOOLEAN, orig |-> { } ]

\* identifiers over two days, each select box and check box left as shown
Ids ==
    [ users |-> { "auth1", "inp1" }, lgs |-> { "", "LG1" },
      reqs |-> { "New" }, amts |-> { 1 }, ptypes |-> { "Copy" },
      inps |-> { "inp1" }, auths |-> { "auth1" },
      stats |-> { "Completed" }, reasons |-> { "" },
      fs |-> { }, orig |-> { } ]

\* a checkbox shows the row's value and may be set to a value of boxes
Box(cell, boxes) == boxes \cup { ToNumeric(cell) = 1 }

(***************************************************************************)
(* State.                                                                  *)
(*   store      the rows of the main sheet                                 *)
(*   clock      the day get_current_date() returns                         *)
(*   pc, user   per session: "idle", or "loaded" while a script run of the *)
(*              logged-in user stands between its load_data and its save   *)
(*   df         per session: the frame load_data returned to the run       *)
(*   today_str  per session: the date the view read when it rendered       *)
(*   shown      the message the last run put on the page (st.success,      *)
(*              st.error) and the task_id it names                         *)
(*   gen        history of Assign Task: the sessions that still hold the   *)
(*              very frame the last Assign Task generated its id from      *)
(*              (twins) and that id; prev is that id when the last step    *)
(*              was the Assign Task of such a session                      *)
(*   net        the connection to the sheet: "up"; "down", every call      *)
(*              raises; "cut", the next call goes through and the calls    *)
(*              after it raise.  pc is "failed" instead of "loaded" while  *)
(*              the run stands on the empty frame of a load that raised    *)
(*   lost       the positions of the sheet at which the last save put back *)
(*              the row of the saver's frame over a row that had changed   *)
(*              since the saver loaded and that the saver did not edit     *)
(***************************************************************************)
VARIABLES store, clock, pc, user, df, today_str, shown, gen, net, lost

vars == << store, clock, pc, user, df, today_str, shown, gen, net, lost >>

\* text: the st.success / st.error of the handler; error: the st.error of
\* save_data
Msg(text, tid) == [ text |-> text, id |-> tid, error |-> "" ]
NoMsg == Msg("", NoId)

Running(s) == pc[s] # "idle"

\* load_data against the connection: except: the empty frame
Fetch ==
    IF net = "down" THEN << >> ELSE load_data(store)

\* save_data against the connection: wks.clear(), then the header row and
\* the rows are appended; except: st.error("Save Error")
Persist(frame) ==
    CASE net = "up" -> save_data(frame)
      [] net = "down" -> store
      [] OTHER -> << >>

SaveError == IF net = "up" THEN "" ELSE "Save Error"

\* lost after session s saved frame
Undone(s, frame) ==
    IF net # "up" \/ df[s] = store THEN { }
    ELSE { i \in 1..Len(store) :
             /\ i <= Len(df[s]) /\ i <= Len(frame)
             /\ LoadRow(store[i]) # df[s][i]
             /\ frame[i] = df[s][i] }

\* gen after a step of session s that is no Assign Task
Forget(s) ==
    LET left == gen.twins \ { s }
    IN  [ twins |-> left, id |-> IF left = { } THEN NoId ELSE gen.id,
          prev |-> NoId ]

Init ==
    /\ store = << >>
    /\ clock = 1
    /\ pc = [s \in Sessions |-> "idle"]
    /\ user = [s \in Sessions |-> NoUser]
    /\ df = [s \in Sessions |-> << >>]
    /\ today_str = [s \in Sessions |-> 0]
    /\ shown = NoMsg
    /\ gen = [ twins |-> { }, id |-> NoId, prev |-> NoId ]
    /\ net = "up"
    /\ lost = { }

\* midnight in Cairo
Tick ==
    /\ clock < MaxDay
    /\ clock' = clock + 1
    /\ gen' = [gen EXCEPT !.prev = NoId]
    /\ lost' = { }
    /\ UNCHANGED << store, pc, user, df, today_str, shown, net >>

\* the connection to the sheet changes
Outage ==
    /\ net' \in { "up", "down", "cut" } \ { net }
    /\ UNCHANGED << store, clock, pc, user, df, today_str, shown, gen, lost >>

\* a script run of user u starts: df = load_data(), today_str = get_current_date()
Load(s, u) ==
    /\ pc[s] = "idle"
    /\ pc' = [pc EXCEPT ![s] = IF net = "down" THEN "failed" ELSE "loaded"]
    /\ user' = [user EXCEPT ![s] = u]
    /\ df' = [df EXCEPT ![s] = Fetch]
    /\ today_str' = [today_str EXCEPT ![s] = get_current_date(clock)]
    /\ shown' = NoMsg
    /\ gen' = Forget(s)
    /\ lost' = { }
    /\ UNCHANGED << store, clock, net >>

\* the script run of session s ends
EndRun(s) ==
    /\ pc' = [pc EXCEPT ![s] = "idle"]
    /\ user' = [user EXCEPT ![s] = NoUser]
    /\ df' = [df EXCEPT ![s] = << >>]
    /\ today_str' = [today_str EXCEPT ![s] = 0]
    /\ UNCHANGED << clock, net >>

\* Commit that writes back only the rows the handler edited
Commit_RowWise(s, text, frame) ==
    /\ store' = IF Len(frame) = Len(df[s]) /\ Len(frame) = Len(store)
                THEN [i \in 1..Len(store) |->
                        IF frame[i] # df[s][i] THEN frame[i] ELSE store[i]]
                ELSE Persist(frame)
    /\ shown' = [Msg(text, NoId) EXCEPT !.error = SaveError]
    /\ gen' = Forget(s)
    /\ lost' = Undone(s, frame)
    /\ EndRun(s)

\* a handler other than Assign Task saves frame, shows text and the run ends
Commit(s, text, frame) ==
    /\ store' = Persist(frame)
    /\ shown' = [Msg(text, NoId) EXCEPT !.error = SaveError]
    /\ gen' = Forget(s)
    /\ lost' = Undone(s, frame)
    /\ EndRun(s)

InAuthorizerView(s) == Running(s) /\ user[s] \in Authorizers
InInputterView(s) == Running(s) /\ user[s] \in Inputters

\* the run renders and no button is pressed
Render(s) ==
    /\ Running(s)
    /\ shown' = NoMsg
    /\ gen' = Forget(s)
    /\ lost' = { }
    /\ EndRun(s)
    /\ UNCHANGED store

(***************************************************************************)
(* authorizer_view, Create tab: Assign Task.                               *)
(***************************************************************************)
\* AssignFrame that reads the sheet again right before the id is generated
AssignFrame_Fresh(s) == load_data(store)

\* the frame Assign Task hands to generate_task_id
AssignFrame(s) == df[s]

\* AssignResult without the test of new_lg
AssignResult_NoCheck(frame, new_lg, new_id, new_row) ==
    [ saves |-> TRUE, frame |-> frame \o << new_row >>,
      shown |-> Msg("Assigned!", new_id) ]

\* if not new_lg: st.error("LG # Required"), else the new row is appended,
\* saved and reported
AssignResult(frame, new_lg, new_id, new_row) ==
    IF new_lg = ""
    THEN [ saves |-> FALSE, frame |-> frame, shown |-> Msg("LG # Required", NoId) ]
    ELSE [ saves |-> TRUE, frame |-> frame \o << new_row >>,
           shown |-> Msg("Assigned!", new_id) ]

AssignTaskOn(s, new_lg, lg_search, req, typed, inp, ptype) ==
    LET prev_tot == PrevTot(df[s], lg_search)
        final_amt == FinalAmt(req, prev_tot, typed)
        final_tot == FinalTot(req, prev_tot, typed)
        new_id == generate_task_id(AssignFrame(s), get_current_date(clock))
        new_row == NewRow(new_id, today_str[s], new_lg, req, final_amt,
                          final_tot, inp, user[s], ptype)
        res == AssignResult(df[s], new_lg, new_id, new_row)
        held == { t \in Sessions \ { s } : pc[t] = "loaded" /\ df[t] = df[s] }
    IN  /\ InAuthorizerView(s)
        /\ res.saves => /\ Len(df[s]) < MaxRows
                        /\ final_tot \in (0 - MaxTotal)..MaxTotal
        /\ store' = IF res.saves THEN Persist(res.frame) ELSE store
        /\ shown' = [res.shown EXCEPT
                         !.error = IF res.saves THEN SaveError ELSE ""]
        /\ lost' = IF res.saves THEN Undone(s, res.frame) ELSE { }
        /\ gen' = IF res.saves
                  THEN [ twins |-> held,
                         id |-> IF held = { } THEN NoId ELSE new_id,
                         prev |-> IF s \in gen.twins THEN gen.id ELSE NoId ]
                  ELSE Forget(s)
        /\ EndRun(s)

AssignTask(s, in) ==
    \E new_lg \in in.lgs, lg_search \in in.lgs, req \in in.reqs,
       typed \in in.amts, inp \in AssignTo(in.inps), ptype \in in.ptypes :
        AssignTaskOn(s, new_lg, lg_search, req, typed, inp, ptype)

(***************************************************************************)
(* authorizer_view, the other tabs.                                        *)
(***************************************************************************)
WithStatus(frame, status) ==
    LET Match(r) == r.status = status IN SelectSeq(frame, Match)

\* my_tasks = df[(df['authorizer'] == user) & (df['status'] == 'Ready for Auth')]
ReviewQueue(frame, u) ==
    LET Match(r) == r.authorizer = u /\ r.status = "Ready for Auth"
    IN  SelectSeq(frame, Match)

\* pending_sent = df[(df['status'] == 'Completed') & (file_sent == 0)]
PendingSent(frame) ==
    LET Match(r) == r.status = "Completed" /\ ToNumeric(r.file_sent) = 0
    IN  SelectSeq(frame, Match)

\* miss = df[(df['post_type'] == 'Copy') & (original_recvd == 0)]
MissingOriginals(frame) ==
    LET Match(r) == r.post_type = "Copy" /\ ToNumeric(r.original_recvd) = 0
    IN  SelectSeq(frame, Match)

\* Active tab: Save Changes on the selected Active task
SaveChangesOn(s, sel_id, n_inp, n_fs) ==
    /\ InAuthorizerView(s)
    /\ sel_id \in smart_select_task(WithStatus(df[s], "Active"))
    /\ LET idx == IndexOf(df[s], sel_id)
       IN  Commit(s, "", SetRow(df[s], idx, EditActiveRow(df[s][idx], n_inp, n_fs)))

SaveChanges(s, in) ==
    \E sel_id \in smart_select_task(WithStatus(df[s], "Active")) :
        \E n_inp \in SelectBox(in.inps),
           n_fs \in Box(df[s][IndexOf(df[s], sel_id)].file_sent, in.fs) :
            SaveChangesOn(s, sel_id, n_inp, n_fs)

\* Active tab, Danger Zone: Permanently Delete Task
DeleteTaskOn(s, sel_id) ==
    /\ InAuthorizerView(s)
    /\ sel_id \in smart_select_task(WithStatus(df[s], "Active"))
    /\ Commit(s, "Task Deleted!", DeleteRows(df[s], sel_id))

DeleteTask(s) ==
    \E sel_id \in smart_select_task(WithStatus(df[s], "Active")) :
        DeleteTaskOn(s, sel_id)

\* Review tab: Execute with the decision picked
ExecuteOn(s, sel_id, dec, reas) ==
    /\ InAuthorizerView(s)
    /\ sel_id \in smart_select_task(ReviewQueue(df[s], user[s]))
    /\ LET idx == IndexOf(df[s], sel_id)
       IN  Commit(s, IF dec = "Approve" THEN "Approved!" ELSE "",
                  SetRow(df[s], idx, ReviewRow(df[s][idx], dec, reas)))

ReviewExecute(s, in) ==
    \E sel_id \in smart_select_task(ReviewQueue(df[s], user[s])) :
        \E dec \in Decisions, reas \in in.reasons :
            ExecuteOn(s, sel_id, dec, reas)

\* Pendings tab: Release on the expander of the Pending row at position i
ReleaseOn(s, i, n_fs, n_or, n_reas, dest) ==
    /\ InAuthorizerView(s)
    /\ i \in 1..Len(df[s])
    /\ df[s][i].status = "Pending"
    /\ LET idx == IndexOf(df[s], df[s][i].task_id)
       IN  Commit(s, "", SetRow(df[s], idx,
                                ReleaseRow(df[s][idx], n_fs, n_or, n_reas, dest)))

Release(s, in) ==
    \E i \in 1..Len(df[s]) :
        \E n_fs \in Box(df[s][i].file_sent, in.fs),
           n_or \in Box(df[s][i].original_recvd, in.orig),
           n_reas \in in.reasons \cup { df[s][i].pending_reason },
           dest \in Dests :
            ReleaseOn(s, i, n_fs, n_or, n_reas, dest)

\* Master Manager: Update Task on any task the search finds
MasterUpdateOn(s, sel_m_id, m_stat, m_auth, m_inp, m_amt, m_curr, m_fs, m_or) ==
    /\ InAuthorizerView(s)
    /\ sel_m_id \in smart_select_task(df[s])
    /\ LET idx == IndexOf(df[s], sel_m_id)
       IN  Commit(s, "Updated!",
                  SetRow(df[s], idx, MasterRow(df[s][idx], m_stat, m_auth, m_inp,
                                               m_amt, m_curr, m_fs, m_or)))

MasterUpdate(s, in) ==
    \E sel_m_id \in smart_select_task(df[s]) :
        LET row == df[s][IndexOf(df[s], sel_m_id)]
        IN  \E m_stat \in in.stats, m_auth \in SelectBox(in.auths),
               m_inp \in SelectBox(in.inps),
               m_amt \in in.amts \cup { ToNumeric(row.amount) },
               m_curr \in in.amts \cup { ToNumeric(row.current_total) },
               m_fs \in Box(row.file_sent, in.fs),
               m_or \in Box(row.original_recvd, in.orig) :
                MasterUpdateOn(s, sel_m_id, m_stat, m_auth, m_inp, m_amt,
                               m_curr, m_fs, m_or)

\* Master Manager: Update Task with DELETE PERMANENTLY checked
MasterDeleteOn(s, sel_m_id) ==
    /\ InAuthorizerView(s)
    /\ sel_m_id \in smart_select_task(df[s])
    /\ Commit(s, "Deleted!", DeleteRows(df[s], sel_m_id))

MasterDelete(s) ==
    \E sel_m_id \in smart_select_task(df[s]) : MasterDeleteOn(s, sel_m_id)

\* Doc Tracking (both views): Confirm File Sent
ConfirmFileSentOn(s, sent_id) ==
    /\ Running(s)
    /\ sent_id \in smart_select_task(PendingSent(df[s]))
    /\ LET idx == IndexOf(df[s], sent_id)
       IN  Commit(s, "Updated!", SetRow(df[s], idx, FileSentRow(df[s][idx])))

ConfirmFileSent(s) ==
    \E sent_id \in smart_select_task(PendingSent(df[s])) :
        ConfirmFileSentOn(s, sent_id)

\* Doc Tracking (both views): Confirm Original Received / Receive
ConfirmOriginalOn(s, miss_id) ==
    /\ Running(s)
    /\ miss_id \in smart_select_task(MissingOriginals(df[s]))
    /\ LET idx == IndexOf(df[s], miss_id)
       IN  Commit(s, "", SetRow(df[s], idx, OriginalRow(df[s][idx])))

ConfirmOriginal(s) ==
    \E miss_id \in smart_select_task(MissingOriginals(df[s])) :
        ConfirmOriginalOn(s, miss_id)

(***************************************************************************)
(* inputter_view.                                                          *)
(***************************************************************************)
\* df[(df['inputter'] == user) & (df['status'] == status)]
MineWithStatus(frame, u, status) ==
    LET Match(r) == r.inputter = u /\ r.status = status
    IN  SelectSeq(frame, Match)

\* Tasks tab: Send to the Authorizer picked
SendOn(s, sel_id, n_auth) ==
    /\ InInputterView(s)
    /\ sel_id \in smart_select_task(MineWithStatus(df[s], user[s], "Active"))
    /\ LET idx == IndexOf(df[s], sel_id)
       IN  Commit(s, "", SetRow(df[s], idx, SendRow(df[s][idx], n_auth)))

Send(s, in) ==
    \E sel_id \in smart_select_task(MineWithStatus(df[s], user[s], "Active")) :
        \E n_auth \in SelectBox(in.auths) : SendOn(s, sel_id, n_auth)

\* Tasks tab: Mark Pending
MarkPendingOn(s, sel_id, reas) ==
    /\ InInputterView(s)
    /\ sel_id \in smart_select_task(MineWithStatus(df[s], user[s], "Active"))
    /\ LET idx == IndexOf(df[s], sel_id)
       IN  Commit(s, "", SetRow(df[s], idx, MarkPendingRow(df[s][idx], reas)))

MarkPending(s, in) ==
    \E sel_id \in smart_select_task(MineWithStatus(df[s], user[s], "Active")) :
        \E reas \in in.reasons : MarkPendingOn(s, sel_id, reas)

\* Watchlist tab: Resubmit
ResubmitOn(s, sel_id) ==
    /\ InInputterView(s)
    /\ sel_id \in smart_select_task(MineWithStatus(df[s], user[s], "Pending"))
    /\ LET idx == IndexOf(df[s], sel_id)
       IN  Commit(s, "", SetRow(df[s], idx, ResubmitRow(df[s][idx])))

Resubmit(s) ==
    \E sel_id \in smart_select_task(MineWithStatus(df[s], user[s], "Pending")) :
        ResubmitOn(s, sel_id)

(***************************************************************************)
(* Specifications.                                                         *)
(*   Spec       one session at a time (every run loads what the run before *)
(*              it saved), the workflow inputs, one day                    *)
(*   SpecIds    one session at a time, the calendar advancing              *)
(*   SpecConc   two sessions whose runs interleave                         *)
(*   SpecFin    one session, the request types of the Create tab           *)
(*   SpecFail   one session, the connection to the sheet failing           *)
(*   SpecBal    one session, one guarantee and two amounts                 *)
(*   SpecDocs   one session, the Orig Recvd boxes and both post types      *)
(*   SpecTrip   one session, an LG # typed with a leading blank            *)
(*   SpecRel    one session, both Authorizers, reasons and Orig Recvd      *)
(*   SpecDir    one session, the user directory with and without users     *)
(***************************************************************************)
Handlers(s, in) ==
    \/ Render(s)
    \/ AssignTask(s, in)
    \/ SaveChanges(s, in)
    \/ DeleteTask(s)
    \/ ReviewExecute(s, in)
    \/ Release(s, in)
    \/ MasterUpdate(s, in)
    \/ MasterDelete(s)
    \/ ConfirmFileSent(s)
    \/ ConfirmOriginal(s)
    \/ Send(s, in)
    \/ MarkPending(s, in)
    \/ Resubmit(s)

Next ==
    \/ \E u \in Workflow.users : Load("s1", u)
    \/ Handlers("s1", Workflow)

Spec == Init /\ [][Next]_vars

NextIds ==
    \/ Tick
    \/ \E u \in Ids.users : Load("s1", u)
    \/ Handlers("s1", Ids)

SpecIds == Init /\ [][NextIds]_vars

\* two browsers: any user at the first, an Authorizer at the second; every
\* Assign Task carries an LG #
Conc == [Ids EXCEPT !.lgs = { "LG1" }]

NextConc ==
    \/ \E u \in Conc.users : Load("s1", u)
    \/ \E u \in Conc.auths : Load("s2", u)
    \/ \E s \in Sessions : Handlers(s, Conc)

SpecConc == Init /\ [][NextConc]_vars

\* inputs of the financial specification: the three request families over a
\* searched history, one session, one day
Fin ==
    [ users |-> { "auth1", "inp1" }, lgs |-> { "", "LG1", "LG2" },
      reqs |-> { "New", "Increase", "Decrease" }, amts |-> { 1 },
      ptypes |-> { "Copy" }, inps |-> { "inp1" }, auths |-> { "auth1" },
      stats |-> { "Completed" }, reasons |-> { "" },
      fs |-> { }, orig |-> { } ]

NextFin ==
    \/ \E u \in Fin.users : Load("s1", u)
    \/ Handlers("s1", Fin)

SpecFin == Init /\ [][NextFin]_vars

\* one session at a time while the connection to the sheet comes and goes
NextFail ==
    \/ Outage
    \/ \E u \in Ids.users : Load("s1", u)
    \/ Handlers("s1", Ids)

SpecFail == Init /\ [][NextFail]_vars

\* inputs of the balance specification: one guarantee, two amounts
Bal ==
    [ users |-> { "auth1", "inp1" }, lgs |-> { "LG1" },
      reqs |-> { "New", "Increase", "Decrease" }, amts |-> { 1, 2 },
      ptypes |-> { "Copy" }, inps |-> { "inp1" }, auths |-> { "auth1" },
      stats |-> { "Completed" }, reasons |-> { "" },
      fs |-> { }, orig |-> { } ]

NextBal ==
    \/ \E u \in Bal.users : Load("s1", u)
    \/ Handlers("s1", Bal)

SpecBal == Init /\ [][NextBal]_vars

\* inputs of the document specification: the Orig Recvd boxes may be set
Docs == [Ids EXCEPT !.lgs = { "LG1" }, !.ptypes = { "Copy", "Original" },
                    !.orig = BOOLEAN]

NextDocs ==
    \/ \E u \in Docs.users : Load("s1", u)
    \/ Handlers("s1", Docs)

SpecDocs == Init /\ [][NextDocs]_vars

\* inputs of the round-trip specification: the LG # is typed with a leading
\* blank
Raw == [Ids EXCEPT !.lgs = { "", " LG1" }]

NextTrip ==
    \/ \E u \in Raw.users : Load("s1", u)
    \/ Handlers("s1", Raw)

SpecTrip == Init /\ [][NextTrip]_vars

\* inputs of the release specification: both Authorizers and one Inputter
\* log in, the reason and the Orig Recvd box may be set
Rel == [Ids EXCEPT !.users = Authorizers \cup { "inp1" }, !.lgs = { "LG1" },
                   !.auths = Authorizers, !.reasons = { "why" },
                   !.orig = BOOLEAN]

NextRel ==
    \/ \E u \in Rel.users : Load("s1", u)
    \/ Handlers("s1", Rel)

SpecRel == Init /\ [][NextRel]_vars

\* what get_users_by_role hands to a run: the users of the role, or the
\* empty list (no user of the role in the Users sheet, or the sheet not read)
UsersFound(role_users) == { { }, role_users }

\* inputs of the directory specification
Dir == { [Ids EXCEPT !.lgs = { "LG1" }, !.inps = i, !.auths = a] :
           i \in UsersFound({ "inp1" }), a \in UsersFound({ "auth1" }) }

NextDir ==
    \/ \E u \in Ids.users : Load("s1", u)
    \/ \E in \in Dir : Handlers("s1", in)

SpecDir == Init /\ [][NextDir]_vars

(***************************************************************************)
(* Properties.  A step of session s is a press of Execute with decision    *)
(* Approve exactly when ExecuteOn(s, sel_id, "Approve", reas) holds of it  *)
(* for some sel_id and reas, and likewise for AssignTaskOn.                *)
(***************************************************************************)

C3_StatusChangesFollowLifecycle ==
    [][LET Lifecycle == { << "Active", "Ready for Auth" >>,
                          << "Active", "Pending" >>,
                          << "Ready for Auth", "Completed" >>,
                          << "Ready for Auth", "Pending" >>,
                          << "Ready for Auth", "Active" >>,
                          << "Pending", "Active" >>,
                          << "Pending", "Ready for Auth" >> }
       IN  \A i \in 1..Len(store) :
             ( /\ Len(store') >= Len(store)
               /\ store'[i].status # store[i].status )
             => << store[i].status, store'[i].status >> \in Lifecycle]_vars

\* C4 as claimed: a task saved as Completed is Completed after every step
\* that keeps it in the sheet.
C4_CompletedIsTerminal ==
    [][\A i \in 1..Len(store) :
         ( /\ Len(store') >= Len(store)
           /\ store[i].status = "Completed" )
         => store'[i].status = "Completed"]_vars

\* C5 as claimed: a task's saved status becomes Completed only in a step that
\* is the Approve of that task by the user its authorizer field names.
C5_OnlyAssignedApproveCompletes ==
    [][\A i \in 1..Len(store) :
         ( /\ Len(store') >= Len(store)
           /\ store[i].status # "Completed"
           /\ store'[i].status = "Completed" )
         => \E s \in Sessions :
              /\ user[s] = store[i].authorizer
              /\ \E sel_id \in smart_select_task(ReviewQueue(df[s], user[s])) :
                   /\ IndexOf(df[s], sel_id) = i
                   /\ \E reas \in Workflow.reasons :
                        ExecuteOn(s, sel_id, "Approve", reas)]_vars

\* C6: an Assign Task with an empty LG # saves nothing: the sheet is what it
\* was, no row is added, the next task_id is still the one this attempt
\* computed, and the error "LG # Required" is shown.
C6_EmptyLgRejected ==
    [][\A s \in Sessions :
         \A lg_search \in Workflow.lgs, req \in Workflow.reqs,
            typed \in Workflow.amts, inp \in Workflow.inps,
            ptype \in Workflow.ptypes :
           AssignTaskOn(s, "", lg_search, req, typed, inp, ptype)
           => /\ store' = store
              /\ Len(store') = Len(df[s])
              /\ generate_task_id(load_data(store'), get_current_date(clock'))
                   = generate_task_id(df[s], get_current_date(clock))
              /\ shown' = Msg("LG # Required", NoId)]_vars

\* the error was just shown over a sheet that holds a task
C6_Witness ==
    /\ shown.text = "LG # Required"
    /\ Len(store) = 1

C8_TaskIdsUnique ==
    \A i, j \in 1..Len(store) :
        store[i].task_id = store[j].task_id => i = j

\* C9 as claimed: when every run loads what the run before it saved, the seq
\* of a newly generated task_id is greater than the seq of every task_id of
\* the same date generated before it; the rows of the sheet carry task_ids
\* generated before it.
C9_SeqStrictlyIncreasing ==
    [][\A s \in Sessions :
         \A new_lg \in Ids.lgs, lg_search \in Ids.lgs, req \in Ids.reqs,
            typed \in Ids.amts, inp \in Ids.inps, ptype \in Ids.ptypes :
           ( /\ AssignTaskOn(s, new_lg, lg_search, req, typed, inp, ptype)
             /\ shown'.text = "Assigned!" )
           => \A i \in 1..Len(store) :
                store[i].task_id[1] = shown'.id[1]
                => shown'.id[2] > store[i].task_id[2]]_vars

\* C10: an Assign Task of a session that loaded the same frame as the session
\* whose Assign Task came right before it, on the same date, computes the
\* very task_id that one computed.
C10_OverlappingAssignsShareId ==
    ( /\ shown.text = "Assigned!"
      /\ gen.prev # NoId
      /\ gen.prev[1] = shown.id[1] )
    => shown.id = gen.prev

\* two Assign Tasks that both loaded before either saved have just computed
\* the same task_id
C10_Witness ==
    /\ shown.text = "Assigned!"
    /\ gen.prev # NoId
    /\ gen.prev = shown.id

\* C11 as claimed: in the sheet, every row that has an earlier row of the
\* same lg_number carries current_total = the nearest such row's
\* current_total + its own amount when its req_type contains Increase,
\* - its own amount when it contains Decrease, and its own amount otherwise.
C11_RunningBalance ==
    \A i \in 1..Len(store) :
        LET earlier == { j \in 1..(i - 1) :
                           store[j].lg_number = store[i].lg_number }
        IN  earlier # { } =>
            LET before == store[CHOOSE j \in earlier : \A k \in earlier : k <= j]
                row == store[i]
            IN  IF HasIncrease(row.req_type)
                THEN row.current_total = before.current_total + row.amount
                ELSE IF HasDecrease(row.req_type)
                THEN row.current_total = before.current_total - row.amount
                ELSE row.current_total = row.amount

\* C12: at every Assign Task, the previous total resolved for the LG #
\* searched is 0 when no row of the frame carries that lg_number, and else
\* is read off the last such row alone: its current_total, or its amount
\* when its current_total is 0 (both are numbers after load_data, which
\* turns what does not parse into 0); a new Increase or Decrease row stores
\* it as its amount.
C12_HistoryResolution ==
    [][\A s \in Sessions :
         \A new_lg \in Fin.lgs, lg_search \in Fin.lgs, req \in Fin.reqs,
            typed \in Fin.amts, inp \in Fin.inps, ptype \in Fin.ptypes :
           AssignTaskOn(s, new_lg, lg_search, req, typed, inp, ptype)
           => LET matches == { i \in 1..Len(df[s]) :
                                 df[s][i].lg_number = lg_search }
                  last == df[s][CHOOSE i \in matches : \A k \in matches : k <= i]
                  resolved == IF lg_search = "" \/ matches = { } THEN 0
                              ELSE IF last.current_total # 0
                                   THEN last.current_total
                                   ELSE last.amount
              IN  /\ PrevTot(df[s], lg_search) = resolved
                  /\ ( /\ new_lg # ""
                       /\ HasIncrease(req) \/ HasDecrease(req) )
                     => store'[Len(store')].amount = resolved]_vars

\* an Increase for LG1 was just assigned over a history row whose
\* current_total is 0, and stores that row's amount
C12_Witness ==
    /\ shown.text = "Assigned!"
    /\ Len(store) = 2
    /\ store[1].lg_number = "LG1" /\ store[1].current_total = 0
    /\ store[1].amount = 1
    /\ store[2].lg_number = "LG1" /\ store[2].req_type = "Increase"
    /\ store[2].amount = 1 /\ store[2].current_total = 2

\* C13 as claimed: every row of the sheet with original_recvd = 1 has
\* post_type "Original".
C13_ReceivedImpliesOriginal ==
    \A i \in 1..Len(store) :
        ToNumeric(store[i].original_recvd) = 1
        => store[i].post_type = "Original"

\* C14: a run that ends leaves the sheet as it was (no save) or leaves
\* exactly the frame it loaded with its own one change (one row edited, one
\* row appended, or the rows of one task_id removed), whatever other sessions
\* saved since it loaded; a row that another session changed in between and
\* that this run did not edit is back to what this run loaded.
C14_LastWriterWins ==
    [][\A s \in Sessions :
         (Running(s) /\ pc'[s] = "idle")
         => /\ \/ store' = store
               \/ /\ Len(store') = Len(df[s])
                  /\ \E idx \in 1..Len(df[s]) :
                       \A i \in 1..Len(df[s]) \ { idx } : store'[i] = df[s][i]
               \/ /\ Len(store') = Len(df[s]) + 1
                  /\ \A i \in 1..Len(df[s]) : store'[i] = df[s][i]
               \/ \E sel_id \in smart_select_task(df[s]) :
                       store' = DeleteRows(df[s], sel_id)
            /\ \A i \in lost' :
                 /\ store'[i] = df[s][i]
                 /\ store'[i] # load_data(store)[i]]_vars

\* a Master Manager update of the second task has just put the first task
\* back to Active, undoing what another session did to it in between
C14_Witness ==
    /\ lost = { 1 }
    /\ shown.text = "Updated!"
    /\ Len(store) = 2
    /\ store[1].status = "Active"
    /\ store[2].status = "Completed"

\* C15 as claimed: a save that fails leaves the sheet as it was before the
\* save started.
C15_FailedSaveLeavesSheet ==
    [][\A s \in Sessions :
         ( /\ Running(s) /\ pc'[s] = "idle"
           /\ shown'.error = "Save Error" )
         => store' = store]_vars

\* C16 as claimed: in a run whose load failed, every row the sheet held is
\* still in the sheet, unchanged, when the run ends, whatever button is
\* pressed (stated for the runs whose own save, if any, goes through).
C16_FailedLoadLeavesSheet ==
    [][\A s \in Sessions :
         ( pc[s] = "failed" /\ pc'[s] = "idle" /\ net = "up" )
         => /\ Len(store') >= Len(store)
            /\ \A i \in 1..Len(store) : store'[i] = store[i]]_vars

\* C17 as claimed: a run whose save failed does not end by showing the
\* success message of its handler.
C17_FailedSaveReportsFailure ==
    [][\A s \in Sessions :
         ( /\ Running(s) /\ pc'[s] = "idle"
           /\ shown'.error = "Save Error" )
         => shown'.text \notin { "Assigned!", "Approved!", "Updated!",
                                 "Task Deleted!", "Deleted!" }]_vars

\* C18 as claimed: once a delete is saved, the task_id it removed is not in
\* the sheet again with the deleted row's data; so the operation that
\* completes right after a saved delete brings no task_id into the sheet that
\* the sheet does not hold, except the one of a row it has just created.
C18_DeleteIsIrreversible ==
    [][( /\ shown.text \in { "Task Deleted!", "Deleted!" }
         /\ shown.error = "" )
       => \A i \in 1..Len(store') :
            (\A j \in 1..Len(store) : store[j].task_id # store'[i].task_id)
            => /\ shown'.text = "Assigned!"
               /\ i = Len(store')]_vars

\* C19 as claimed: Save Changes pressed with every widget as shown saves the
\* loaded frame unchanged; the sheet then holds the same rows in the same
\* order with the same values, up to the canonical form of the numeric
\* columns, and a second load returns what the first returned.
C19_RoundTripIdentity ==
    [][\A s \in Sessions :
         \A sel_id \in smart_select_task(WithStatus(df[s], "Active")) :
           LET row == df[s][IndexOf(df[s], sel_id)]
           IN  SaveChangesOn(s, sel_id, row.inputter, ToNumeric(row.file_sent) = 1)
               => /\ Len(store') = Len(store)
                  /\ \A i \in 1..Len(store) :
                       [store'[i] EXCEPT
                          !.amount = ToNumeric(@), !.current_total = ToNumeric(@),
                          !.file_sent = ToNumeric(@), !.original_recvd = ToNumeric(@)]
                       = [store[i] EXCEPT
                          !.amount = ToNumeric(@), !.current_total = ToNumeric(@),
                          !.file_sent = ToNumeric(@), !.original_recvd = ToNumeric(@)]
                  /\ load_data(store') = df[s]]_vars

\* C19 as amended: Save Changes pressed with every widget as shown saves the
\* same rows in the same order, each with the values the sheet held except
\* that an lg_number typed with a leading blank is saved without it; a second
\* load returns what the first returned.
C19_RoundTripNormalises ==
    [][\A s \in Sessions :
         \A sel_id \in smart_select_task(WithStatus(df[s], "Active")) :
           LET row == df[s][IndexOf(df[s], sel_id)]
           IN  SaveChangesOn(s, sel_id, row.inputter, ToNumeric(row.file_sent) = 1)
               => /\ Len(store') = Len(store)
                  /\ \A i \in 1..Len(store) :
                       store'[i] = [store[i] EXCEPT
                                      !.lg_number = IF @ = " LG1" THEN "LG1" ELSE @]
                  /\ load_data(store') = df[s]]_vars

\* the sheet's only task, assigned with LG # " LG1", is saved as "LG1"
C19_Witness ==
    /\ shown = NoMsg
    /\ \A s \in Sessions : pc[s] = "idle"
    /\ Len(store) = 1
    /\ store[1].lg_number = "LG1"
    /\ store[1].status = "Active"
    /\ store[1].file_sent = 0

\* C20: when every run loads what the run before it saved, a step that
\* removes no row (Send, Mark Pending, Resubmit, Execute, Release, Save
\* Changes, Update Task, the document confirmations, and Assign Task for the
\* rows already there) leaves every row of the sheet at its place with the
\* task_id it had.
C20_TaskIdImmutable ==
    [][Len(store') >= Len(store)
       => \A i \in 1..Len(store) : store'[i].task_id = store[i].task_id]_vars

\* a Master Manager update has just changed status and authorizer of the
\* second task, and both tasks carry the ids they were created with
C20_Witness ==
    /\ shown.text = "Updated!"
    /\ Len(store) = 2
    /\ store[1].task_id = << 1, 1 >>
    /\ store[2].task_id = << 1, 2 >>
    /\ store[2].status = "Pending"
    /\ store[2].authorizer = "auth2"
    /\ store[1].authorizer = "auth1"

\* C21 as claimed: in a run that loaded what the run before it saved, a
\* transition or edit (Send, Mark Pending, Resubmit, Execute, Release, Save
\* Changes, Update Task, Confirm File Sent, Confirm Original Received)
\* changes only the record the user selected in the list the tab shows: the
\* sheet keeps its number of rows, and every row but one, which is a row of
\* that list carrying the selected task_id, is what it was.
C21_SingleRecord ==
    [][\A s \in Sessions :
         LET Picked(queue, sel_id) ==
                 { i \in 1..Len(df[s]) : /\ df[s][i].task_id = sel_id
                                         /\ df[s][i] \in SeqToSet(queue) }
             OnlyPicked(queue, sel_id) ==
                 /\ Len(store') = Len(store)
                 /\ \E i \in Picked(queue, sel_id) :
                      \A j \in 1..Len(store) \ { i } : store'[j] = store[j]
             mine == MineWithStatus(df[s], user[s], "Active")
             fix == MineWithStatus(df[s], user[s], "Pending")
             act == WithStatus(df[s], "Active")
             my_tasks == ReviewQueue(df[s], user[s])
         IN  /\ \A sel_id \in smart_select_task(mine) :
                  /\ \A n_auth \in Workflow.auths :
                       SendOn(s, sel_id, n_auth) => OnlyPicked(mine, sel_id)
                  /\ \A reas \in Workflow.reasons :
                       MarkPendingOn(s, sel_id, reas) => OnlyPicked(mine, sel_id)
             /\ \A sel_id \in smart_select_task(fix) :
                  ResubmitOn(s, sel_id) => OnlyPicked(fix, sel_id)
             /\ \A sel_id \in smart_select_task(my_tasks) :
                  \A dec \in Decisions, reas \in Workflow.reasons :
                    ExecuteOn(s, sel_id, dec, reas) => OnlyPicked(my_tasks, sel_id)
             /\ \A sel_id \in smart_select_task(act) :
                  \A n_inp \in Workflow.inps, n_fs \in BOOLEAN :
                    SaveChangesOn(s, sel_id, n_inp, n_fs) => OnlyPicked(act, sel_id)
             /\ \A i \in 1..Len(df[s]) :
                  \A n_fs \in BOOLEAN, n_or \in BOOLEAN, dest \in Dests,
                     n_reas \in Workflow.reasons \cup { df[s][i].pending_reason } :
                    ReleaseOn(s, i, n_fs, n_or, n_reas, dest)
                    => /\ Len(store') = Len(store)
                       /\ \A j \in 1..Len(store) \ { i } : store'[j] = store[j]
             /\ \A sel_id \in smart_select_task(PendingSent(df[s])) :
                  ConfirmFileSentOn(s, sel_id)
                  => OnlyPicked(PendingSent(df[s]), sel_id)
             /\ \A sel_id \in smart_select_task(MissingOriginals(df[s])) :
                  ConfirmOriginalOn(s, sel_id)
                  => OnlyPicked(MissingOriginals(df[s]), sel_id)
             /\ ( /\ InAuthorizerView(s) /\ pc'[s] = "idle"
                  /\ shown'.text = "Updated!" )
                => \E sel_id \in smart_select_task(df[s]) :
                     OnlyPicked(df[s], sel_id)]_vars

\* C22 as claimed: a run of an Inputter u changes the saved status only of
\* rows whose inputter is u, and only from Active to Ready for Auth or
\* Pending (Send, Mark Pending) or from Pending to Ready for Auth (Resubmit).
C22_InputterOwnershipGating ==
    [][\A s \in Sessions :
         (InInputterView(s) /\ pc'[s] = "idle")
         => \A i \in 1..Len(store) :
              ( /\ Len(store') = Len(store)
                /\ store'[i].status # store[i].status )
              => /\ store[i].inputter = user[s]
                 /\ << store[i].status, store'[i].status >>
                      \in { << "Active", "Ready for Auth" >>,
                            << "Active", "Pending" >>,
                            << "Pending", "Ready for Auth" >> }]_vars

\* C23 as claimed: after an Inputter's Send of an Active task of theirs to
\* the Authorizer picked, the row of that task is saved with status Ready
\* for Auth and that authorizer, every other field as loaded, and the next
\* load lists it in the review queue of that Authorizer and of no other.
C23_SendReachesChosenAuthorizer ==
    [][\A s \in Sessions :
         LET mine == MineWithStatus(df[s], user[s], "Active")
         IN  \A sel_id \in smart_select_task(mine), n_auth \in Workflow.auths :
               SendOn(s, sel_id, n_auth)
               => \E i \in 1..Len(df[s]) :
                    /\ df[s][i].task_id = sel_id
                    /\ df[s][i] \in SeqToSet(mine)
                    /\ Len(store') = Len(df[s])
                    /\ store'[i] = [df[s][i] EXCEPT !.status = "Ready for Auth",
                                                    !.authorizer = n_auth]
                    /\ store'[i] \in SeqToSet(ReviewQueue(load_data(store'), n_auth))
                    /\ \A a \in Authorizers \ { n_auth } :
                         store'[i] \notin SeqToSet(ReviewQueue(load_data(store'), a))]_vars

\* C24 as claimed: a step that saves a row as Pending that was not Pending
\* is a command that carries a reason (Mark Pending, or Execute with the
\* decision Pending), and saves that reason as the row's pending_reason.
C24_PendingRecordsReason ==
    [][\A s \in Sessions :
         (Running(s) /\ pc'[s] = "idle")
         => \A i \in 1..Len(store) :
              ( /\ Len(store') = Len(store)
                /\ store[i].status # "Pending"
                /\ store'[i].status = "Pending" )
              => \E reas \in Workflow.reasons :
                   /\ store'[i].pending_reason = reas
                   /\ \/ \E sel_id \in smart_select_task(
                                  MineWithStatus(df[s], user[s], "Active")) :
                           MarkPendingOn(s, sel_id, reas)
                      \/ \E sel_id \in smart_select_task(
                                  ReviewQueue(df[s], user[s])) :
                           ExecuteOn(s, sel_id, "Pending", reas)]_vars

\* C25: in the view of every Authorizer, whoever the row's authorizer is,
\* Release can be pressed on every Pending row of the loaded frame for both
\* destinations; it saves that row as Active when the destination is
\* Inputter and as Ready for Auth when it is Authorizer, with the boxes and
\* the reason as set, and the next load lists the row in the Tasks tab of the
\* Inputter its inputter names, respectively in the review queue of the
\* Authorizer its authorizer names.
C25_ReleaseHandsOver ==
    [][\A s \in Sessions :
         \A i \in 1..Len(df[s]) :
           /\ (InAuthorizerView(s) /\ df[s][i].status = "Pending")
              => \A dest \in Dests :
                   ENABLED ReleaseOn(s, i, FALSE, FALSE, "why", dest)
           /\ \A n_fs \in BOOLEAN, n_or \in BOOLEAN, dest \in Dests,
                 n_reas \in Rel.reasons \cup { df[s][i].pending_reason } :
                ReleaseOn(s, i, n_fs, n_or, n_reas, dest)
                => /\ Len(store') = Len(df[s])
                   /\ LET row == store'[i]
                          next == load_data(store')
                      IN  /\ row = [df[s][i] EXCEPT
                                      !.status = IF dest = "Inputter" THEN "Active"
                                                 ELSE "Ready for Auth",
                                      !.file_sent = Flag(n_fs),
                                      !.original_recvd = Flag(n_or),
                                      !.pending_reason = n_reas]
                          /\ IF dest = "Inputter"
                             THEN /\ row.inputter \in Inputters
                                  /\ row \in SeqToSet(
                                       MineWithStatus(next, row.inputter, "Active"))
                             ELSE /\ row.authorizer \in Authorizers
                                  /\ row \in SeqToSet(
                                       ReviewQueue(next, row.authorizer))]_vars

\* a Pending task whose authorizer is auth2 was released to the Inputter with
\* Orig Recvd ticked and the reason "why": only Release saves a Copy row as
\* Active with original_recvd = 1
C25_Witness ==
    /\ shown = NoMsg
    /\ \E i \in 1..Len(store) :
         /\ store[i].status = "Active"
         /\ store[i].post_type = "Copy"
         /\ store[i].original_recvd = 1
         /\ store[i].pending_reason = "why"
         /\ store[i].authorizer = "auth2"

\* C26: every row of the sheet carries one of the four statuses Active,
\* Ready for Auth, Pending, Completed, whatever was assigned, sent, marked,
\* reviewed, released or set in the Master Manager before.
C26_StatusDomain ==
    \A i \in 1..Len(store) : store[i].status \in SeqToSet(StatusOpts)

\* a task returned by its Authorizer with a reason is Active again next to a
\* Completed task
C26_Witness ==
    /\ Len(store) = 2
    /\ store[1].status = "Active"
    /\ store[1].pending_reason = "why"
    /\ store[2].status = "Completed"

\* C27 as claimed: every Ready for Auth row of the sheet has a non-empty
\* authorizer that names an Authorizer and every Active row a non-empty
\* inputter that names an Inputter, so that each is in one user's queue, also
\* when the user directory returned no users for a role.
C27_NoOrphanedWork ==
    \A i \in 1..Len(store) :
        /\ store[i].status = "Ready for Auth"
           => store[i].authorizer # "" /\ store[i].authorizer \in Authorizers
        /\ store[i].status = "Active"
           => store[i].inputter # "" /\ store[i].inputter \in Inputters

\* C28 as claimed: a delete (Permanently Delete Task, or Update Task with
\* DELETE PERMANENTLY checked) of the selected task, in a run that loaded what
\* the run before it saved, leaves the sheet with exactly one row less: one
\* row that carries the selected task_id is gone and every other row is
\* there, unchanged and in order.
C28_DeleteRemovesOneRecord ==
    [][\A s \in Sessions :
         \A sel_id \in smart_select_task(df[s]) :
           (DeleteTaskOn(s, sel_id) \/ MasterDeleteOn(s, sel_id))
           => /\ Len(store') = Len(store) - 1
              /\ \E i \in 1..Len(store) :
                   /\ store[i].task_id = sel_id
                   /\ store' = SubSeq(store, 1, i - 1)
                                 \o SubSeq(store, i + 1, Len(store))]_vars

====
